---- MODULE Spec2Model ----
(***************************************************************************)
(* Iteration Tracker dashboard (React client component) and its document   *)
(* viewer: the table controller (filter, sort, pagination, selection), the *)
(* three modal flags and the fetch-and-render task of DocumentViewer.      *)
(*                                                                         *)
(* Conventions of the model                                                *)
(*  - a JavaScript string that is searched or compared character by        *)
(*    character is a sequence of one-character strings; the token          *)
(*    "EN_DASH" stands for the single character U+2013;                    *)
(*  - a JavaScript number is a record [nan, v]; scores are in tenths       *)
(*    (2.5 is 25) and Date.getTime() is in seconds, not milliseconds;      *)
(*  - an event handler, the render that follows it and the effects of that *)
(*    render (useEffect) are one action;                                   *)
(*  - `last` is a history variable: the kind of the last event, the page   *)
(*    index before it, whether the page-clamp effect had to act, and for a *)
(*    viewer event the viewer, the container and the cause.                *)
(***************************************************************************)
EXTENDS Integers, Sequences, FiniteSets, TLC

VARIABLES
    dataset,             \* which project list was loaded at mount (never changes)
    selectedProject,     \* index into projects, 0 for null
    openSupplierDoc,
    openBaselineDoc,
    openDeviationModal,
    searchTerm,
    riskFilter,
    userFilter,
    sortKey,
    sortDir,
    pageSize,
    currentPage,
    containerRef,        \* per DocumentViewer: the mounted container div, 0 for null
    contents,            \* innerHTML of the container divs (see DashRender)
    tasks,               \* the async tasks of the viewers that have not finished
    unhandled,           \* a rejection escaped an async task
    last,                \* history: the last event
    view                 \* the output of the last call of a pure function or component

tableVars == <<searchTerm, riskFilter, userFilter, sortKey, sortDir, pageSize, currentPage>>
modalVars == <<openSupplierDoc, openBaselineDoc, openDeviationModal>>
viewerVars == <<containerRef, contents, tasks, unhandled>>
vars == <<dataset, selectedProject, modalVars, tableVars, viewerVars, last, view>>

(***************************************************************************)
(* Bounds of the model.                                                    *)
(***************************************************************************)
MaxTermLen == 2
MaxProjects == 11
MaxInFlight == 2
MaxDeviations == 3
MaxCount == 12

(***************************************************************************)
(* Strings.                                                                *)
(***************************************************************************)
UpperChars == <<"A","B","C","D","E","F","G","H","I","J","K","L","M",
                "N","O","P","Q","R","S","T","U","V","W","X","Y","Z">>
LowerChars == <<"a","b","c","d","e","f","g","h","i","j","k","l","m",
                "n","o","p","q","r","s","t","u","v","w","x","y","z">>

\* String.prototype.toLowerCase on one character: the lower-case letter of an
\* upper-case ASCII letter, every other character as it is.
LowerOf == [c \in {UpperChars[i] : i \in 1..Len(UpperChars)} |->
               LowerChars[CHOOSE i \in 1..Len(UpperChars) : UpperChars[i] = c]]

ToLowerChar(c) == IF c \in DOMAIN LowerOf THEN LowerOf[c] ELSE c

ToLowerCase(s) == [i \in 1..Len(s) |-> ToLowerChar(s[i])]

IsWhiteSpace(c) == c \in {" ", "\t", "\n"}

RECURSIVE TrimStart(_)
TrimStart(s) ==
    IF s # <<>> /\ IsWhiteSpace(Head(s)) THEN TrimStart(Tail(s)) ELSE s

RECURSIVE TrimEnd(_)
TrimEnd(s) ==
    IF s # <<>> /\ IsWhiteSpace(s[Len(s)]) THEN TrimEnd(SubSeq(s, 1, Len(s) - 1)) ELSE s

Trim(s) == TrimEnd(TrimStart(s))

Includes(s, sub) ==
    \E i \in 0..(Len(s) - Len(sub)) : SubSeq(s, i + 1, i + Len(sub)) = sub

(***************************************************************************)
(* Numbers and dates.                                                      *)
(***************************************************************************)
Num(n) == [nan |-> FALSE, v |-> n]
NaN == [nan |-> TRUE, v |-> 0]
NumberIsNaN(x) == x.nan

IsoDate(y, mo, d, h, mi, s) ==
    [iso |-> TRUE, y |-> y, mo |-> mo, d |-> d, h |-> h, mi |-> mi, s |-> s]
NotADate == [iso |-> FALSE, y |-> 0, mo |-> 0, d |-> 0, h |-> 0, mi |-> 0, s |-> 0]

\* Days since 1970-01-01 of a proleptic Gregorian date.
DaysFromCivil(y, mo, d) ==
    LET yy == IF mo <= 2 THEN y - 1 ELSE y
        era == yy \div 400
        yoe == yy - era * 400
        mp == IF mo > 2 THEN mo - 3 ELSE mo + 9
        doy == (153 * mp + 2) \div 5 + d - 1
        doe == yoe * 365 + yoe \div 4 - yoe \div 100 + doy
    IN era * 146097 + doe - 719468

\* new Date(str).getTime(), in seconds; NaN for a string that is no date.
DateGetTime(str) ==
    IF str.iso
    THEN Num(DaysFromCivil(str.y, str.mo, str.d) * 86400
             + str.h * 3600 + str.mi * 60 + str.s)
    ELSE NaN

(***************************************************************************)
(* The sample projects.                                                    *)
(***************************************************************************)
RiskLevels == {"Low", "Medium", "High"}
RiskFilters == {"All", "High", "Medium", "Low"}
SortKeys == {"createdAt", "updatedAt", "totalWeightedScore"}
SortDirections == {"asc", "desc"}
PageSizes == {5, 10, 20, 50, 100}
All == <<"A","l","l">>

mockProjects == <<
    [ id |-> "1",
      username |-> <<"T","A","E","7","7","5","8">>,
      projectName |-> <<"T","D"," ","N","D","A"," ","EN_DASH"," ","H","i","g","h"," ",
                        "&"," ","L","o","w"," ","C","h","a","n","g","e","s">>,
      createdAt |-> IsoDate(2025, 11, 16, 23, 0, 0),
      updatedAt |-> IsoDate(2025, 11, 16, 23, 40, 0),
      riskLevel |-> "Medium",
      totalWeightedScore |-> Num(25),
      supplierDocUrl |-> "/api/documents/supplier-nda",
      baselineDocUrl |-> "/api/documents/td-baseline-nda",
      deviations |-> <<60, 30, 30, 10>> ],
    [ id |-> "2",
      username |-> <<"W","Y","A","T","T","1","2">>,
      projectName |-> <<"O","C"," ","D","e","m","o"," ","EN_DASH"," ","S","u","p","p",
                        "l","i","e","r"," ","A","B","C">>,
      createdAt |-> IsoDate(2025, 11, 14, 18, 20, 0),
      updatedAt |-> IsoDate(2025, 11, 14, 18, 45, 0),
      riskLevel |-> "High",
      totalWeightedScore |-> Num(39),
      supplierDocUrl |-> "/api/documents/supplier-oc",
      baselineDocUrl |-> "/api/documents/td-baseline-oc",
      deviations |-> <<>> ],
    [ id |-> "3",
      username |-> <<"T","A","F","7","3","3","7">>,
      projectName |-> <<"N","e","w"," ","M","o","d","e","l"," ","O","u","t","p","u","t",
                        " ","T","e","s","t">>,
      createdAt |-> IsoDate(2025, 11, 13, 17, 50, 0),
      updatedAt |-> IsoDate(2025, 11, 13, 18, 0, 0),
      riskLevel |-> "Low",
      totalWeightedScore |-> Num(7),
      supplierDocUrl |-> "/api/documents/supplier-model",
      baselineDocUrl |-> "/api/documents/td-baseline-model",
      deviations |-> <<>> ] >>

\* A project row of the ProjectRow shape, the i-th of a generated list: two
\* users, names with and without a double space, every risk level, equal
\* timestamps and scores among the rows, and a createdAt that is no date in
\* every fourth row.
GenProject(i) ==
    [ id |-> ToString(100 + i),
      username |-> IF i % 2 = 1 THEN <<"A","a">> ELSE <<"a"," ","b">>,
      projectName |-> CASE i % 3 = 0 -> <<"x"," "," ","y">>
                        [] i % 3 = 1 -> <<"x","A","y">>
                        [] OTHER -> <<"B">>,
      createdAt |-> IF i % 4 = 0 THEN NotADate
                    ELSE IsoDate(2025, 1 + (i % 2), 1 + ((i * 5) % 7), 9, 30, 0),
      updatedAt |-> IsoDate(2024 + (i % 2), 2, 20 + ((i * 3) % 5), i % 3, 0, 15),
      riskLevel |-> CASE i % 3 = 0 -> "Low" [] i % 3 = 1 -> "Medium" [] OTHER -> "High",
      totalWeightedScore |-> Num(((i * 7) % 10) + (10 * (i % 4))),
      supplierDocUrl |-> "/api/documents/supplier-nda",
      baselineDocUrl |-> "/api/documents/td-baseline-nda",
      deviations |-> <<>> ]

GenProjects(n) == [i \in 1..n |-> GenProject(i)]

\* The project lists of the model: list 0 is mockProjects, list n > 0 is the
\* generated list of n rows.
ListSizes == {MaxProjects}
Datasets == {0} \cup ListSizes
ProjectLists == [k \in Datasets |-> IF k = 0 THEN mockProjects ELSE GenProjects(k)] @@ <<>>

\* The project list of the component (mockProjects in the source).
projects == ProjectLists[dataset]

(***************************************************************************)
(* The table controller: the values derived at each render.                *)
(***************************************************************************)
Min(a, b) == IF a < b THEN a ELSE b
Max(a, b) == IF a > b THEN a ELSE b

\* matchesSearch with the term compared as typed (no toLowerCase on the term).
matchesSearchTermAsTyped(p, term) ==
    \/ Trim(term) = <<>>
    \/ Includes(ToLowerCase(p.username), term)
    \/ Includes(ToLowerCase(p.projectName), term)

matchesSearch(p, term) ==
    \/ Trim(term) = <<>>
    \/ Includes(ToLowerCase(p.username), ToLowerCase(term))
    \/ Includes(ToLowerCase(p.projectName), ToLowerCase(term))

matchesRisk(p, risk) == risk = "All" \/ p.riskLevel = risk

matchesUser(p, user) == user = All \/ p.username = user

\* A risk filter other than "All" that sets the search term aside.
matchesRiskOverSearch(p, term, risk, user) ==
    /\ risk = "All" => matchesSearch(p, term)
    /\ matchesRisk(p, risk)
    /\ matchesUser(p, user)

matches(p, term, risk, user) ==
    matchesSearch(p, term) /\ matchesRisk(p, risk) /\ matchesUser(p, user)

filteredFor(list, term, risk, user) ==
    LET Test(p) == matches(p, term, risk, user)
    IN SelectSeq(list, Test)

(***************************************************************************)
(* The inputs of the model: what the user can type or select.              *)
(***************************************************************************)
Alphabet == {"Y", " "}

RECURSIVE SeqsUpTo(_, _)
SeqsUpTo(S, n) ==
    IF n = 0 THEN {<<>>}
    ELSE LET shorter == SeqsUpTo(S, n - 1)
         IN shorter \cup {Append(s, c) : s \in shorter, c \in S}

SearchTerms == SeqsUpTo(Alphabet, MaxTermLen)

usersOf(list) == {list[i].username : i \in 1..Len(list)}

uniqueUsers == usersOf(projects)

AllUserOptions == {All} \cup UNION {usersOf(ProjectLists[k]) : k \in Datasets}

\* filteredFor tabulated over the inputs of the model (the same values, looked
\* up instead of recomputed in every state).
filteredTable ==
    [a \in Datasets \X SearchTerms \X RiskFilters \X AllUserOptions |->
        filteredFor(ProjectLists[a[1]], a[2], a[3], a[4])] @@ <<>>

filteredProjects == filteredTable[<<dataset, searchTerm, riskFilter, userFilter>>]


sortValue(p, key) ==
    CASE key = "createdAt" -> DateGetTime(p.createdAt)
      [] key = "updatedAt" -> DateGetTime(p.updatedAt)
      [] key = "totalWeightedScore" -> p.totalWeightedScore
      [] OTHER -> Num(0)

\* compareProjects with the direction ignored.
compareProjectsAscendingOnly(a, b, key, dir) ==
    LET aVal == sortValue(a, key)
        bVal == sortValue(b, key)
    IN IF NumberIsNaN(aVal) \/ NumberIsNaN(bVal) THEN 0 ELSE aVal.v - bVal.v

\* The comparator handed to Array.prototype.sort.
compareProjects(a, b, key, dir) ==
    LET aVal == sortValue(a, key)
        bVal == sortValue(b, key)
        diff == aVal.v - bVal.v
    IN IF NumberIsNaN(aVal) \/ NumberIsNaN(bVal) THEN 0
       ELSE IF dir = "asc" THEN diff ELSE 0 - diff

\* x put into an already sorted list, after every element that is not greater.
RECURSIVE InsertSorted(_, _, _, _)
InsertSorted(sorted, x, key, dir) ==
    IF sorted = <<>> \/ compareProjects(x, sorted[Len(sorted)], key, dir) >= 0
    THEN Append(sorted, x)
    ELSE Append(InsertSorted(SubSeq(sorted, 1, Len(sorted) - 1), x, key, dir),
                sorted[Len(sorted)])

\* Array.prototype.sort: stable (ECMAScript 2019). With a comparator that is
\* not a consistent order (a row that is no date compares equal to every
\* row) the order is implementation-defined and this is one such order.
RECURSIVE ArraySort(_, _, _)
ArraySort(list, key, dir) ==
    IF list = <<>> THEN <<>>
    ELSE InsertSorted(ArraySort(SubSeq(list, 1, Len(list) - 1), key, dir),
                      list[Len(list)], key, dir)

\* ArraySort of the filtered list, tabulated over the inputs of the model.
sortedTable ==
    [a \in Datasets \X SearchTerms \X RiskFilters \X AllUserOptions
            \X SortKeys \X SortDirections |->
        ArraySort(filteredTable[<<a[1], a[2], a[3], a[4]>>], a[5], a[6])] @@ <<>>

sortedProjects ==
    sortedTable[<<dataset, searchTerm, riskFilter, userFilter, sortKey, sortDir>>]

\* Math.ceil(n / size) for n >= 0 and size > 0.
MathCeilDiv(n, size) == (n + size - 1) \div size

\* totalPagesFor with Math.floor in place of Math.ceil.
totalPagesForFloor(count, size) == Max(1, count \div size)

totalPagesFor(count, size) == Max(1, MathCeilDiv(count, size))

totalPages == totalPagesFor(Len(sortedProjects), pageSize)

safePage == Min(currentPage, totalPages - 1)

startIndex == safePage * pageSize

\* Array.prototype.slice(from, to) for 0 <= from <= to.
ArraySlice(list, from, to) == SubSeq(list, from + 1, Min(to, Len(list)))

paginatedProjects == ArraySlice(sortedProjects, startIndex, startIndex + pageSize)

\* The effect that follows every render: the page index the effect leaves.
pageClampEffect(page, pages) == IF page > pages - 1 THEN pages - 1 ELSE page

(***************************************************************************)
(* DeviationModal and formatDeviationCount.  A deviation is its score, in   *)
(* tenths as every score is.                                               *)
(***************************************************************************)
RECURSIVE SumScores(_)
\* deviations.reduce((sum, d) => sum + d.score, 0)
SumScores(deviations) ==
    IF deviations = <<>> THEN 0
    ELSE SumScores(SubSeq(deviations, 1, Len(deviations) - 1)) + deviations[Len(deviations)]

\* The larger of x and y in place of x || y.
JsOrFloor(x, y) == IF x < y THEN y ELSE x

\* x || y of two numbers: y when x is 0 (or NaN), else x
JsOr(x, y) == IF x = 0 THEN y ELSE x

\* The number 1, in tenths.
One == 10

totalScoreOf(deviations) == JsOr(SumScores(deviations), One)

riskLabelOf(riskLevel) == <<riskLevel, " Risk">>

\* Thresholds that take the scores 1 and 3 into the lower band.
bandTextOfInclusive(totalWeightedScore) ==
    IF ~NumberIsNaN(totalWeightedScore) /\ totalWeightedScore.v <= 10
    THEN <<"Low: 0", "EN_DASH", "1">>
    ELSE IF ~NumberIsNaN(totalWeightedScore) /\ totalWeightedScore.v <= 30
    THEN <<"Medium: 1", "EN_DASH", "3">>
    ELSE <<"High: 3+">>

bandTextOf(totalWeightedScore) ==
    IF ~NumberIsNaN(totalWeightedScore) /\ totalWeightedScore.v < 10
    THEN <<"Low: 0", "EN_DASH", "1">>
    ELSE IF ~NumberIsNaN(totalWeightedScore) /\ totalWeightedScore.v < 30
    THEN <<"Medium: 1", "EN_DASH", "3">>
    ELSE <<"High: 3+">>

\* The distribution rows: of each deviation its score and the width of its
\* bar, Math.min(pct, 100) with pct = (score / totalScore) * 100, in whole
\* percent.
distributionRows(deviations, totalScore) ==
    [j \in 1..Len(deviations) |->
        [score |-> deviations[j],
         width |-> Min((deviations[j] * 100) \div totalScore, 100)]]

\* A label with no plural form.
formatDeviationCountNoPlural(count) ==
    IF count <= 0 THEN "No deviations"
    ELSE ToString(count) \o " deviation"

\* `${count} deviations` is the decimal form of count and the suffix.
formatDeviationCount(count) ==
    IF count <= 0 THEN "No deviations"
    ELSE IF count = 1 THEN "1 deviation"
    ELSE ToString(count) \o " deviations"

\* What DeviationModal renders; <<>> for null.
DeviationModal(open, deviations, riskLevel, totalWeightedScore) ==
    IF ~open THEN <<>>
    ELSE [totalScore |-> totalScoreOf(deviations),
          riskLabel |-> riskLabelOf(riskLevel),
          bandText |-> bandTextOf(totalWeightedScore),
          rows |-> distributionRows(deviations, totalScoreOf(deviations))]

(***************************************************************************)
(* The initial state: the state after the first render and its effects.    *)
(***************************************************************************)
Viewers == {"supplier", "baseline"}

\* The history record: of a table event its kind, the page index before it,
\* whether the page-clamp effect had to act and (handleSort) the key; of a
\* click the row; of a viewer event the viewer, the container written, the
\* cause of a failure and the HTTP status of the response.
NoEvent ==
    [kind |-> "mount", page |-> 0, clamped |-> FALSE, info |-> "",
     row |-> 0, viewer |-> "", el |-> 0, status |-> 0]

TableEvent(kind, clamped, info) ==
    [NoEvent EXCEPT !.kind = kind, !.page = currentPage, !.clamped = clamped, !.info = info]

DashEvent(kind, clamped, row, viewer) ==
    [NoEvent EXCEPT !.kind = kind, !.clamped = clamped, !.row = row, !.viewer = viewer]

TaskEvent(kind, task, info, status) ==
    [NoEvent EXCEPT !.kind = kind, !.viewer = task.viewer, !.el = task.el,
                    !.info = info, !.status = status]

\* No pure function has been called.
NoView == [fn |-> "", props |-> <<>>, out |-> <<>>, done |-> FALSE]

\* The state after mount over the given list; call is the pure call at hand.
InitOf(list, call) ==
    /\ dataset = list
    /\ selectedProject = IF Len(ProjectLists[list]) > 0 THEN 1 ELSE 0
    /\ openSupplierDoc = FALSE
    /\ openBaselineDoc = FALSE
    /\ openDeviationModal = FALSE
    /\ searchTerm = <<>>
    /\ riskFilter = "All"
    /\ userFilter = All
    /\ sortKey = "updatedAt"
    /\ sortDir = "desc"
    /\ pageSize = 10
    /\ currentPage = 0
    /\ containerRef = [v \in Viewers |-> 0]
    /\ contents = <<>> \* no container yet
    /\ tasks = <<>>
    /\ unhandled = FALSE
    /\ last = NoEvent
    /\ view = call

InitWith(list) == InitOf(list, NoView)

(***************************************************************************)
(* The table controller: its event handlers.  Each is followed by a render *)
(* and by the page-clamp effect of that render; the viewers' effect does   *)
(* not run, as neither an open flag nor a URL changes.                     *)
(***************************************************************************)
TableRender(kind, info, term, risk, user, size, page) ==
    LET sorted == sortedTable[<<dataset, term, risk, user, sortKey', sortDir'>>]
        pages == totalPagesFor(Len(sorted), size)
    IN /\ searchTerm' = term
       /\ riskFilter' = risk
       /\ userFilter' = user
       /\ pageSize' = size
       /\ currentPage' = pageClampEffect(page, pages)
       /\ last' = TableEvent(kind, page > pages - 1, info)
       /\ UNCHANGED <<dataset, view, selectedProject, modalVars, viewerVars>>

\* onChange of the search input
SetSearchTerm(value) ==
    /\ value # searchTerm
    /\ UNCHANGED <<sortKey, sortDir>>
    /\ TableRender("filter", "", value, riskFilter, userFilter, pageSize, 0)

\* onChange of the risk select
SetRiskFilter(value) ==
    /\ value # riskFilter
    /\ UNCHANGED <<sortKey, sortDir>>
    /\ TableRender("filter", "", searchTerm, value, userFilter, pageSize, 0)

\* SetUserFilter without setCurrentPage(0).
SetUserFilterKeepsPage(value) ==
    /\ value # userFilter
    /\ UNCHANGED <<sortKey, sortDir>>
    /\ TableRender("filter", "", searchTerm, riskFilter, value, pageSize, currentPage)

\* onChange of the user select
SetUserFilter(value) ==
    /\ value # userFilter
    /\ UNCHANGED <<sortKey, sortDir>>
    /\ TableRender("filter", "", searchTerm, riskFilter, value, pageSize, 0)

\* SetPageSize without setCurrentPage(0).
SetPageSizeKeepsPage(value) ==
    /\ value # pageSize
    /\ UNCHANGED <<sortKey, sortDir>>
    /\ TableRender("pageSize", "", searchTerm, riskFilter, userFilter, value, currentPage)

\* onChange of the rows-per-page select
SetPageSize(value) ==
    /\ value # pageSize
    /\ UNCHANGED <<sortKey, sortDir>>
    /\ TableRender("pageSize", "", searchTerm, riskFilter, userFilter, value, 0)

\* handleSort that keeps the direction when the column changes.
handleSortKeepsDirection(key) ==
    /\ IF sortKey = key
       THEN /\ sortDir' = (IF sortDir = "asc" THEN "desc" ELSE "asc")
            /\ sortKey' = sortKey
       ELSE /\ sortKey' = key
            /\ sortDir' = sortDir
    /\ TableRender("sort", key, searchTerm, riskFilter, userFilter, pageSize, currentPage)

handleSort(key) ==
    /\ IF sortKey = key
       THEN /\ sortDir' = (IF sortDir = "asc" THEN "desc" ELSE "asc")
            /\ sortKey' = sortKey
       ELSE /\ sortKey' = key
            /\ sortDir' = "desc"
    /\ TableRender("sort", key, searchTerm, riskFilter, userFilter, pageSize, currentPage)

\* the Prev button, disabled on the first page
PrevPage ==
    /\ safePage # 0
    /\ UNCHANGED <<sortKey, sortDir>>
    /\ TableRender("prev", "", searchTerm, riskFilter, userFilter, pageSize,
                   Max(0, currentPage - 1))

\* the Next button, disabled on the last page
NextPage ==
    /\ ~(safePage >= totalPages - 1)
    /\ UNCHANGED <<sortKey, sortDir>>
    /\ TableRender("next", "", searchTerm, riskFilter, userFilter, pageSize,
                   Min(totalPages - 1, currentPage + 1))

UserOptions == {All} \cup uniqueUsers

TableNext ==
    \/ \E value \in SearchTerms : SetSearchTerm(value)
    \/ \E value \in RiskFilters : SetRiskFilter(value)
    \/ \E value \in UserOptions : SetUserFilter(value)
    \/ \E value \in PageSizes : SetPageSize(value)
    \/ \E key \in SortKeys : handleSort(key)
    \/ PrevPage
    \/ NextPage

InitTable == \E list \in Datasets : InitWith(list)

SpecTable == InitTable /\ [][TableNext]_vars

(***************************************************************************)
(* The dashboard: selection, the modal flags and the two DocumentViewer     *)
(* instances.  A container div is mounted when a viewer opens and unmounted *)
(* when it closes.  A div is known by a number, and the number of a div     *)
(* that is neither mounted nor captured by a task is free for a later div,  *)
(* as its memory is.  `contents` holds the innerHTML of the mounted divs    *)
(* and of the div the last event wrote: nothing reads the innerHTML of a    *)
(* div that is off the page.                                                *)
(***************************************************************************)
Empty == <<"html", "">>
Fallback ==
    <<"html", "<p style='color:#b91c1c;font-size:12px'>Document preview is unavailable. Please download and open locally.</p>">>
Doc(url) == <<"docx", url>>

\* current = selectedProject ?? mockProjects[0]; 0 when there is none.
currentOf(sel) == IF sel # 0 THEN sel ELSE IF Len(projects) > 0 THEN 1 ELSE 0

current == currentOf(selectedProject)

\* The url prop of a viewer; "" when the viewers are not rendered.
urlOf(v, sel) ==
    IF currentOf(sel) = 0 THEN ""
    ELSE IF v = "supplier" THEN projects[currentOf(sel)].supplierDocUrl
    ELSE projects[currentOf(sel)].baselineDocUrl

openOf(v) == IF v = "supplier" THEN openSupplierDoc ELSE openBaselineDoc

\* The effect of DocumentViewer, deps [open, url]: whether it starts the task.
viewerEffectStarts(depsChanged, open, url, el) ==
    depsChanged /\ open /\ url # "" /\ el # 0

\* A handler of the dashboard set the selection and the flags: the render
\* that follows, the containers it mounts and unmounts, and its effects.
\* The same divs at every mount: a viewer that keeps its container.
KeptIds(used, n, from) == [k \in 1..n |-> from + k - 1]

\* The least n numbers that are not in the set used.
RECURSIVE FreshIds(_, _, _)
FreshIds(used, n, from) ==
    IF n = 0 THEN <<>>
    ELSE IF from \in used THEN FreshIds(used, n, from + 1)
    ELSE <<from>> \o FreshIds(used, n - 1, from + 1)

\* The contents of the divs in keep: cs, with a new div empty.
Retain(cs, keep) ==
    [el \in keep \ {0} |-> IF el \in DOMAIN cs THEN cs[el] ELSE Empty]

Captured(ts) == {ts[i].el : i \in 1..Len(ts)}

Mounted(ref) == {ref[v] : v \in Viewers}

DashRender(kind, row, viewer, sel, os, ob, od) ==
    LET openNew == [v \in Viewers |-> IF v = "supplier" THEN os ELSE ob]
        rendered == currentOf(sel) # 0
        mounts(v) == rendered /\ openNew[v] /\ ~(openOf(v) /\ current # 0)
        fresh == FreshIds(Mounted(containerRef) \cup Captured(tasks), 2, 1)
        elNew == [v \in Viewers |->
                     IF ~(rendered /\ openNew[v]) THEN 0
                     ELSE IF mounts(v) THEN fresh[IF v = "supplier" THEN 1 ELSE 2]
                     ELSE containerRef[v]]
        depsChanged(v) == openNew[v] # openOf(v) \/ urlOf(v, sel) # urlOf(v, selectedProject)
        pages == totalPages
        started(v) ==
            IF rendered /\ viewerEffectStarts(depsChanged(v), openNew[v], urlOf(v, sel), elNew[v])
            THEN <<[viewer |-> v, el |-> elNew[v], url |-> urlOf(v, sel), pc |-> "fetch"]>>
            ELSE <<>>
    IN /\ selectedProject' = sel
       /\ openSupplierDoc' = os
       /\ openBaselineDoc' = ob
       /\ openDeviationModal' = od
       /\ containerRef' = elNew
       /\ tasks' = tasks \o started("supplier") \o started("baseline")
       /\ Len(tasks') <= MaxInFlight
       /\ contents' = Retain([el \in DOMAIN contents \cap Mounted(containerRef) |-> contents[el]],
                              Mounted(elNew))
       /\ currentPage' = pageClampEffect(currentPage, pages)
       /\ last' = DashEvent(kind, currentPage > pages - 1, row, viewer)
       /\ UNCHANGED <<dataset, view, searchTerm, riskFilter, userFilter, sortKey, sortDir,
                      pageSize, unhandled>>

\* The rows on the page: indices into projects.
VisibleRows ==
    LET page == paginatedProjects
        ids == {page[j].id : j \in 1..Len(page)}
    IN {i \in 1..Len(projects) : projects[i].id \in ids}

\* onClick of a table row
RowClick(i) ==
    /\ i \in VisibleRows
    /\ DashRender("rowClick", i, "", i, openSupplierDoc, openBaselineDoc, openDeviationModal)

\* onClick of the supplier document link of a row (stopPropagation)
OpenSupplierDoc(i) ==
    /\ i \in VisibleRows
    /\ DashRender("openSupplier", i, "supplier", i, TRUE, openBaselineDoc, openDeviationModal)

\* A baseline link whose handler also closes the supplier viewer.
OpenBaselineDocClosesSupplier(i) ==
    /\ i \in VisibleRows
    /\ DashRender("openBaseline", i, "baseline", i, FALSE, TRUE, openDeviationModal)

\* onClick of the baseline document link of a row (stopPropagation)
OpenBaselineDoc(i) ==
    /\ i \in VisibleRows
    /\ DashRender("openBaseline", i, "baseline", i, openSupplierDoc, TRUE, openDeviationModal)

\* onClick of the View Risk Summary button of a row (stopPropagation)
OpenDeviationModal(i) ==
    /\ i \in VisibleRows
    /\ DashRender("openDeviation", i, "", i, openSupplierDoc, openBaselineDoc, TRUE)

\* A close button that is disabled while a task of the viewer is in flight.
CloseDocumentWhenIdle(v) ==
    /\ current # 0
    /\ openOf(v)
    /\ \A k \in 1..Len(tasks) : tasks[k].viewer # v
    /\ DashRender("close", 0, v, selectedProject,
                  IF v = "supplier" THEN FALSE ELSE openSupplierDoc,
                  IF v = "baseline" THEN FALSE ELSE openBaselineDoc,
                  openDeviationModal)

\* The close button of a DocumentViewer: rendered whenever the viewer is open.
CloseDocument(v) ==
    /\ current # 0
    /\ openOf(v)
    /\ DashRender("close", 0, v, selectedProject,
                  IF v = "supplier" THEN FALSE ELSE openSupplierDoc,
                  IF v = "baseline" THEN FALSE ELSE openBaselineDoc,
                  openDeviationModal)

\* The close button of the DeviationModal.
CloseDeviationModal ==
    /\ current # 0
    /\ openDeviationModal
    /\ DashRender("closeDeviation", 0, "", selectedProject, openSupplierDoc,
                  openBaselineDoc, FALSE)

(***************************************************************************)
(* The async task of a DocumentViewer: fetch, arrayBuffer, renderAsync,    *)
(* each an await that settles later, inside one try/catch.                 *)
(***************************************************************************)
HttpStatuses == {200, 201, 204, 404, 500}

\* A check that accepts status 200 alone.
ResponseOkOnly200(status) == status = 200

\* Response.ok
ResponseOk(status) == status >= 200 /\ status <= 299

\* A try block that ends after the status check.
tryCoversFetchOnly(cause) == cause \in {"network", "status"}

\* The awaits the try block covers: a rejection of any of them, and the throw
\* on a response that is not ok, reach the catch block.
tryCovers(cause) == cause \in {"network", "status", "body", "render"}

\* A task that writes only while its container is on the page.
WrittenIfAttached(el, html) ==
    IF el \in Mounted(containerRef)
    THEN [e \in Mounted(containerRef) \ {0} |-> IF e = el THEN html ELSE contents[e]]
    ELSE [e \in Mounted(containerRef) \ {0} |-> contents[e]]

\* el.innerHTML = html by a task
Written(el, html) ==
    [e \in (Mounted(containerRef) \cup {el}) \ {0} |-> IF e = el THEN html ELSE contents[e]]

RemoveAt(seq, i) == SubSeq(seq, 1, i - 1) \o SubSeq(seq, i + 1, Len(seq))

\* The task goes on or ends without a write to its container.
NoWrite == contents' = Retain(contents, Mounted(containerRef))

\* A failure inside the task: the catch block writes the fallback notice.
TaskFails(i, cause, status) ==
    /\ IF tryCovers(cause)
       THEN /\ contents' = Written(tasks[i].el, Fallback)
            /\ unhandled' = unhandled
       ELSE /\ NoWrite
            /\ unhandled' = TRUE
    /\ tasks' = RemoveAt(tasks, i)
    /\ last' = TaskEvent("failed", tasks[i], cause, status)
    /\ UNCHANGED <<dataset, view, selectedProject, modalVars, tableVars, containerRef>>

\* await fetch(url) rejects: a network error
FetchRejects(i) ==
    /\ tasks[i].pc = "fetch"
    /\ TaskFails(i, "network", 0)

\* await fetch(url) resolves with a response of the given status
FetchResolves(i, status) ==
    /\ tasks[i].pc = "fetch"
    /\ IF ~ResponseOk(status)
       THEN TaskFails(i, "status", status)
       ELSE /\ tasks' = [tasks EXCEPT ![i].pc = "arrayBuffer"]
            /\ NoWrite
            /\ last' = TaskEvent("response", tasks[i], "", status)
            /\ UNCHANGED <<dataset, view, selectedProject, modalVars, tableVars,
                           containerRef, unhandled>>

\* await res.arrayBuffer() resolves; el.innerHTML = ""; renderAsync is called
ArrayBufferResolves(i) ==
    /\ tasks[i].pc = "arrayBuffer"
    /\ tasks' = [tasks EXCEPT ![i].pc = "render"]
    /\ contents' = Written(tasks[i].el, Empty)
    /\ last' = TaskEvent("cleared", tasks[i], "", 0)
    /\ UNCHANGED <<dataset, view, selectedProject, modalVars, tableVars, containerRef, unhandled>>

\* await res.arrayBuffer() rejects
ArrayBufferRejects(i) ==
    /\ tasks[i].pc = "arrayBuffer"
    /\ TaskFails(i, "body", 0)

\* await docxPreview.renderAsync(buffer, el) resolves: el holds the document
RenderResolves(i) ==
    /\ tasks[i].pc = "render"
    /\ tasks' = RemoveAt(tasks, i)
    /\ contents' = Written(tasks[i].el, Doc(tasks[i].url))
    /\ last' = TaskEvent("rendered", tasks[i], "", 0)
    /\ UNCHANGED <<dataset, view, selectedProject, modalVars, tableVars, containerRef, unhandled>>

\* await docxPreview.renderAsync(buffer, el) rejects (an empty or damaged
\* buffer, for one)
RenderRejects(i) ==
    /\ tasks[i].pc = "render"
    /\ TaskFails(i, "render", 0)

TaskNext ==
    \E i \in 1..Len(tasks) :
        \/ FetchRejects(i)
        \/ \E status \in HttpStatuses : FetchResolves(i, status)
        \/ ArrayBufferResolves(i)
        \/ ArrayBufferRejects(i)
        \/ RenderResolves(i)
        \/ RenderRejects(i)

\* The events of one viewer, the supplier document's, and of the rows.
SupplierViewerNext ==
    \/ \E i \in 1..Len(projects) :
          \/ RowClick(i)
          \/ OpenSupplierDoc(i)
    \/ CloseDocument("supplier")

InitDash == InitWith(0)

DashNext == SupplierViewerNext \/ TaskNext

\* The dashboard over mockProjects with one document viewer in use and every
\* outcome of its tasks.
Spec == InitDash /\ [][DashNext]_vars

\* The rows clicked: the first and the last row of the page.
ClickedRows ==
    LET page == paginatedProjects
        ids == IF page = <<>> THEN {} ELSE {page[1].id, page[Len(page)].id}
    IN {i \in 1..Len(projects) : projects[i].id \in ids}

\* The clicks of the dashboard: every control of a row and every close button,
\* the two page buttons, and a server that answers no fetch.
FrameNext ==
    \/ PrevPage
    \/ NextPage
    \/ \E i \in ClickedRows :
          \/ RowClick(i)
          \/ OpenSupplierDoc(i)
          \/ OpenBaselineDoc(i)
          \/ OpenDeviationModal(i)
    \/ \E v \in Viewers : CloseDocument(v)
    \/ CloseDeviationModal
    \/ \E i \in 1..Len(tasks) : FetchRejects(i)

SpecFrame == InitTable /\ [][FrameNext]_vars

\* The table controller with the clicks on the first and the last row of the
\* page.
SelectNext ==
    \/ TableNext
    \/ \E i \in ClickedRows : RowClick(i)

SpecSelect == InitTable /\ [][SelectNext]_vars

(***************************************************************************)
(* The pure parts called on their own: DeviationModal over lists of scores, *)
(* risk levels and total weighted scores, formatDeviationCount over counts. *)
(***************************************************************************)
ScoreValues == {0, 3, 5, 10, 30, 60}
DeviationLists == SeqsUpTo(ScoreValues, MaxDeviations)
WeightedScores == {NaN} \cup {Num(v) : v \in {-5, 0, 7, 9, 10, 25, 29, 30, 39}}
Counts == (-1)..MaxCount

\* The calls at hand: the function and its arguments, nothing returned yet.
Calls ==
    {[fn |-> "DeviationModal",
      props |-> [open |-> open, deviations |-> deviations, riskLevel |-> riskLevel,
                 totalWeightedScore |-> totalWeightedScore],
      out |-> <<>>, done |-> FALSE] :
        open \in BOOLEAN, deviations \in DeviationLists, riskLevel \in RiskLevels,
        totalWeightedScore \in WeightedScores}
    \cup
    {[fn |-> "formatDeviationCount", props |-> [count |-> count],
      out |-> <<>>, done |-> FALSE] : count \in Counts}

RenderDeviationModal ==
    /\ view.fn = "DeviationModal"
    /\ ~view.done
    /\ view' = [view EXCEPT !.done = TRUE,
                            !.out = DeviationModal(view.props.open, view.props.deviations,
                                                   view.props.riskLevel,
                                                   view.props.totalWeightedScore)]
    /\ UNCHANGED <<dataset, selectedProject, modalVars, tableVars, viewerVars, last>>

CallFormatDeviationCount ==
    /\ view.fn = "formatDeviationCount"
    /\ ~view.done
    /\ view' = [view EXCEPT !.done = TRUE, !.out = formatDeviationCount(view.props.count)]
    /\ UNCHANGED <<dataset, selectedProject, modalVars, tableVars, viewerVars, last>>

PureNext ==
    \/ RenderDeviationModal
    \/ CallFormatDeviationCount

InitPure == \E call \in Calls : InitOf(0, call)

SpecPure == InitPure /\ [][PureNext]_vars

(***************************************************************************)
(* Properties of the table controller.                                     *)
(***************************************************************************)
InList(p, list) == \E j \in 1..Len(list) : list[j] = p

\* Two characters that are the same letter in either case.
SameLetter(c, d) ==
    \/ c = d
    \/ \E i \in 1..Len(UpperChars) :
          {c, d} = {UpperChars[i], LowerChars[i]}

\* sub occurs in s, letters compared without regard to case.
OccursIgnoringCase(sub, s) ==
    \E off \in 0..(Len(s) - Len(sub)) :
        \A j \in 1..Len(sub) : SameLetter(s[off + j], sub[j])

SearchHit(p) ==
    OccursIgnoringCase(searchTerm, p.username) \/ OccursIgnoringCase(searchTerm, p.projectName)

RiskAndUserHit(p) ==
    /\ riskFilter = "All" \/ riskFilter = p.riskLevel
    /\ userFilter = All \/ userFilter = p.username

OnlyWhiteSpace(s) == \A i \in 1..Len(s) : s[i] \in {" ", "\t", "\n"}

\* C1 as stated: a project is in the filtered list exactly when (the search
\* term is empty or occurs, ignoring case, in its username or projectName)
\* and the risk filter and the user filter admit it; a term of white space
\* only counts as not empty.
C1_FilterAsStated ==
    \A i \in 1..Len(projects) :
        InList(projects[i], filteredProjects)
            <=> /\ searchTerm = <<>> \/ SearchHit(projects[i])
                /\ RiskAndUserHit(projects[i])

\* C1 amended: a project is in the filtered list exactly when (the search
\* term is empty or of white space only, or occurs, ignoring case, in its
\* username or projectName) and the risk filter and the user filter admit it.
C1_Filter ==
    \A i \in 1..Len(projects) :
        InList(projects[i], filteredProjects)
            <=> /\ OnlyWhiteSpace(searchTerm) \/ SearchHit(projects[i])
                /\ RiskAndUserHit(projects[i])

\* A term of white space only that occurs in no field of a listed project,
\* together with a risk filter that leaves some project out.
C1_Witness ==
    /\ searchTerm # <<>>
    /\ OnlyWhiteSpace(searchTerm)
    /\ riskFilter # "All"
    /\ \E j \in 1..Len(filteredProjects) : ~SearchHit(filteredProjects[j])
    /\ Len(filteredProjects) < Len(projects)

\* C2: the visible rows are at most pageSize and the page count is
\* max(1, ceil(filteredCount / pageSize)): the least k >= 1 with
\* k * pageSize >= filteredCount.
C2_Pagination ==
    /\ Len(paginatedProjects) <= pageSize
    /\ totalPages >= 1
    /\ totalPages * pageSize >= Len(filteredProjects)
    /\ totalPages > 1 => (totalPages - 1) * pageSize < Len(filteredProjects)

\* The last of several pages, not full, under a filter.
C2_Witness ==
    /\ totalPages > 1
    /\ currentPage = totalPages - 1
    /\ Len(paginatedProjects) > 0
    /\ Len(paginatedProjects) < pageSize
    /\ Len(filteredProjects) < Len(projects)

\* C3 as stated: after a change of search term, risk filter or user filter
\* that shrinks the page count below the old page index + 1, the page index
\* is pageCount - 1.
C3_ClampAsStated ==
    (last.kind = "filter" /\ totalPages < last.page + 1)
        => currentPage = totalPages - 1

\* C3 amended: after any change of search term, risk filter or user filter
\* the page index is 0, the first page, also when the page count shrank below
\* the old page index + 1 and still exceeds 1.
C3_FilterResetsPage ==
    last.kind = "filter" => (currentPage = 0 /\ currentPage <= totalPages - 1)

\* A filter change from a page that no longer exists to a list of several pages.
C3_Witness ==
    /\ last.kind = "filter"
    /\ totalPages < last.page + 1
    /\ totalPages > 1
    /\ currentPage = 0

\* C4: handleSort(key) on the active key flips the direction and keeps the
\* key; on another key it makes key the sort key and the direction "desc".
C4_SortToggle ==
    [][last'.kind = "sort" =>
         IF sortKey = last'.info
         THEN sortKey' = sortKey /\ sortDir' # sortDir /\ sortDir' \in SortDirections
         ELSE sortKey' = last'.info /\ sortDir' = "desc"]_vars

\* A column other than the initial one, toggled to ascending.
C4_Witness ==
    /\ last.kind = "sort"
    /\ sortKey = "totalWeightedScore"
    /\ sortDir = "asc"

\* The timestamp of a date string as a tuple, compared field by field.
RECURSIVE LexLeq(_, _)
LexLeq(a, b) ==
    \/ a = <<>>
    \/ Head(a) < Head(b)
    \/ Head(a) = Head(b) /\ LexLeq(Tail(a), Tail(b))

DateLeq(a, b) ==
    LexLeq(<<a.y, a.mo, a.d, a.h, a.mi, a.s>>, <<b.y, b.mo, b.d, b.h, b.mi, b.s>>)

KeyValid(p) ==
    CASE sortKey = "createdAt" -> p.createdAt.iso
      [] sortKey = "updatedAt" -> p.updatedAt.iso
      [] OTHER -> ~p.totalWeightedScore.nan

KeyLeq(p, q) ==
    CASE sortKey = "createdAt" -> DateLeq(p.createdAt, q.createdAt)
      [] sortKey = "updatedAt" -> DateLeq(p.updatedAt, q.updatedAt)
      [] OTHER -> p.totalWeightedScore.v <= q.totalWeightedScore.v

\* C5: the sorted list is a permutation of the filtered list; when every row
\* has a valid value for the sort key, consecutive rows are non-decreasing
\* (asc) or non-increasing (desc) in it; a comparison with a row whose value
\* is not valid yields 0.
C5_Sorted ==
    /\ Len(sortedProjects) = Len(filteredProjects)
    /\ \A j \in 1..Len(filteredProjects) : InList(filteredProjects[j], sortedProjects)
    /\ (\A j \in 1..Len(filteredProjects) : KeyValid(filteredProjects[j]))
          => \A j \in 1..(Len(sortedProjects) - 1) :
                IF sortDir = "asc"
                THEN KeyLeq(sortedProjects[j], sortedProjects[j + 1])
                ELSE KeyLeq(sortedProjects[j + 1], sortedProjects[j])
    /\ \A i, j \in 1..Len(filteredProjects) :
          (~KeyValid(filteredProjects[i]) \/ ~KeyValid(filteredProjects[j]))
              => compareProjects(filteredProjects[i], filteredProjects[j],
                                 sortKey, sortDir) = 0

\* A list of valid dates that the sort had to reorder, ascending.
C5_Witness ==
    /\ sortKey = "createdAt"
    /\ sortDir = "asc"
    /\ Len(filteredProjects) >= 4
    /\ \A j \in 1..Len(filteredProjects) : KeyValid(filteredProjects[j])
    /\ sortedProjects # filteredProjects
    /\ \E j \in 1..(Len(sortedProjects) - 1) :
          ~KeyLeq(sortedProjects[j + 1], sortedProjects[j])

(***************************************************************************)
(* The document viewer.                                                    *)
(***************************************************************************)
\* The tasks of viewer v that are at the given await.
TasksAt(v, pc) == {k \in 1..Len(tasks) : tasks[k].viewer = v /\ tasks[k].pc = pc}

\* C6: every failure of the fetch-and-render task of a Document Viewer (a
\* network error, a status that is not ok, a rejection while the body is read
\* or rendered) leaves the fallback notice in the container of the task, which
\* is the content area of the viewer whenever that container is still on the
\* page; the error does not leave the task, and no modal flag changes.
C6_FailureShowsFallback ==
    [][last'.kind = "failed" =>
         /\ last'.info \in {"network", "status", "body", "render"}
         /\ last'.el \in DOMAIN contents'
         /\ contents'[last'.el] = Fallback
         /\ unhandled' = FALSE
         /\ UNCHANGED modalVars
         /\ UNCHANGED containerRef]_vars

\* A 404 has failed the task of the open supplier viewer, whose content area
\* holds the fallback notice.
C6_Witness ==
    /\ last.kind = "failed"
    /\ last.info = "status"
    /\ last.status = 404
    /\ openSupplierDoc
    /\ containerRef["supplier"] = last.el
    /\ contents[last.el] = Fallback
    /\ ~unhandled

\* C7 as stated: the viewer goes on to read and render the body of a response
\* only when its status is 200; every other status, 201 and 204 among them,
\* is a failure.
C7_Non200Fails ==
    last.kind = "response" => last.status = 200

\* C7: the viewer treats a response as a failure exactly when its status is
\* outside 200..299: it then writes the fallback notice and reads no body; a
\* response with a status in 200..299 (201 and 204 as much as 200) has its
\* body read.
C7_NotOkFails ==
    /\ (last.kind = "failed" /\ last.info = "status") =>
          /\ last.status \in HttpStatuses \ (200..299)
          /\ contents[last.el] = Fallback
    /\ last.kind = "response" =>
          /\ last.status \in HttpStatuses \cap (200..299)
          /\ \E k \in 1..Len(tasks) : tasks[k].el = last.el /\ tasks[k].pc = "arrayBuffer"

\* A response with status 201 has been accepted: its task is reading the body
\* and the content area holds no fallback notice.
C7_Witness ==
    /\ last.kind = "response"
    /\ last.status = 201
    /\ containerRef["supplier"] = last.el
    /\ contents[last.el] # Fallback
    /\ TasksAt("supplier", "arrayBuffer") # {}

\* C8 as stated: of each Document Viewer at most one fetch is in flight.
C8_OneFetchInFlight ==
    \A v \in Viewers : Cardinality(TasksAt(v, "fetch")) <= 1

\* C9: the close button of a Document Viewer is enabled whenever the viewer is
\* open, whatever its task is doing, and a click on it closes the viewer in
\* that step: the flag is false, the container is off the page, and the tasks
\* in flight are left as they are.
C9_CloseAlwaysCloses ==
    /\ [](\A v \in Viewers : openOf(v) => ENABLED CloseDocument(v))
    /\ [][last'.kind = "close" =>
            /\ last'.viewer = "supplier" => openSupplierDoc /\ ~openSupplierDoc'
            /\ last'.viewer = "baseline" => openBaselineDoc /\ ~openBaselineDoc'
            /\ last'.viewer \in Viewers
            /\ containerRef'[last'.viewer] = 0
            /\ tasks' = tasks]_vars

\* The supplier viewer was closed while a fetch of it was in flight.
C9_Witness ==
    /\ last.kind = "close"
    /\ last.viewer = "supplier"
    /\ ~openSupplierDoc
    /\ containerRef["supplier"] = 0
    /\ TasksAt("supplier", "fetch") # {}

(***************************************************************************)
(* The clicks on a row.                                                    *)
(***************************************************************************)
ShownOnPage(i) == \E j \in 1..Len(paginatedProjects) : paginatedProjects[j].id = projects[i].id

\* C10: a click on the supplier link, the baseline link or the View Risk
\* Summary button of a row selects the project of that row and sets the flag
\* of that modal alone; a click on the row selects the project and sets no
\* flag; the other flags and the search term, the filters, the sort, the
\* page size and the page stay as they were.
C10_ClickFrame ==
    [][last'.kind \in {"rowClick", "openSupplier", "openBaseline", "openDeviation"} =>
         /\ ShownOnPage(last'.row)
         /\ selectedProject' = last'.row
         /\ openSupplierDoc' = (openSupplierDoc \/ last'.kind = "openSupplier")
         /\ openBaselineDoc' = (openBaselineDoc \/ last'.kind = "openBaseline")
         /\ openDeviationModal' = (openDeviationModal \/ last'.kind = "openDeviation")
         /\ UNCHANGED tableVars
         /\ UNCHANGED dataset]_vars

\* The baseline link of a row of the second page was clicked while the
\* supplier viewer and the deviation modal were open.
C10_Witness ==
    /\ last.kind = "openBaseline"
    /\ selectedProject = last.row
    /\ currentPage = 1
    /\ openSupplierDoc
    /\ openBaselineDoc
    /\ openDeviationModal

(***************************************************************************)
(* DeviationModal and formatDeviationCount.                                *)
(***************************************************************************)
\* DeviationModal has rendered an open modal.
ModalRendered == view.fn = "DeviationModal" /\ view.done /\ view.props.open

RECURSIVE ScoreSum(_)
ScoreSum(scores) == IF scores = <<>> THEN 0 ELSE Head(scores) + ScoreSum(Tail(scores))

\* C11 as stated: the total score of the distribution bars is max(1, sum of
\* the scores) for every list of non-negative scores, a sum strictly between
\* 0 and 1 included.
C11_TotalScoreFlooredAtOne ==
    ModalRendered => view.out.totalScore = Max(One, ScoreSum(view.props.deviations))

\* C11: the total score of the distribution bars is the sum of the scores
\* when that sum is not 0 (a sum strictly between 0 and 1 stays as it is),
\* and 1 when the sum is 0, as it is for the empty list; there is one
\* distribution row per deviation, so none for the empty list.
C11_TotalScore ==
    ModalRendered =>
        LET sum == ScoreSum(view.props.deviations)
        IN /\ sum # 0 => view.out.totalScore = sum
           /\ sum = 0 => view.out.totalScore = One
           /\ view.out.totalScore > 0
           /\ Len(view.out.rows) = Len(view.props.deviations)
           /\ view.props.deviations = <<>> => view.out.totalScore = One /\ view.out.rows = <<>>

\* The modal was rendered over scores 0.3 and 0.5: the total score is 0.8.
C11_Witness ==
    /\ ModalRendered
    /\ view.props.deviations = <<3, 5>>
    /\ view.out.totalScore = 8
    /\ Len(view.out.rows) = 2

\* C12: the band label of the modal is "Low: 0-1" (with an en dash) when
\* totalWeightedScore is below 1, "Medium: 1-3" when it is at least 1 and
\* below 3, and "High: 3+" otherwise, whatever the riskLevel and the
\* deviations are.
C12_BandText ==
    ModalRendered =>
        LET score == view.props.totalWeightedScore
            tenths == score.v
        IN view.out.bandText =
              CASE ~score.nan /\ tenths < 10 -> <<"Low: 0", "EN_DASH", "1">>
                [] ~score.nan /\ tenths \in 10..29 -> <<"Medium: 1", "EN_DASH", "3">>
                [] OTHER -> <<"High: 3+">>

\* A score of 2.5 with riskLevel High and a deviation of score 6 has the
\* Medium band.
C12_Witness ==
    /\ ModalRendered
    /\ view.props.totalWeightedScore = Num(25)
    /\ view.props.riskLevel = "High"
    /\ view.props.deviations = <<60>>
    /\ view.out.bandText = <<"Medium: 1", "EN_DASH", "3">>
    /\ view.out.riskLabel = <<"High", " Risk">>

\* formatDeviationCount has returned.
CountFormatted == view.fn = "formatDeviationCount" /\ view.done

DecimalDigits == <<"0", "1", "2", "3", "4", "5", "6", "7", "8", "9">>

RECURSIVE Decimal(_)
\* n >= 0 in decimal
Decimal(n) ==
    IF n < 10 THEN DecimalDigits[n + 1]
    ELSE Decimal(n \div 10) \o DecimalDigits[(n % 10) + 1]

\* C13: for every integer n >= 0, formatDeviationCount(n) is "No deviations"
\* when n = 0, "1 deviation" when n = 1, and n in decimal followed by
\* " deviations" when n >= 2.
C13_FormatDeviationCount ==
    (CountFormatted /\ view.props.count >= 0) =>
        view.out = CASE view.props.count = 0 -> "No deviations"
                     [] view.props.count = 1 -> "1 deviation"
                     [] OTHER -> Decimal(view.props.count) \o " deviations"

\* The count 12 was formatted as "12 deviations".
C13_Witness ==
    /\ CountFormatted
    /\ view.props.count = 12
    /\ view.out = "12 deviations"

(***************************************************************************)
(* The sample projects under the risk filter "High".                       *)
(***************************************************************************)
\* The sample list is loaded, the user filter is "All" and the risk filter
\* is "High".
HighOfSample == dataset = 0 /\ userFilter = All /\ riskFilter = "High"

\* C14 as stated: with the 3 sample projects and user filter "All", the risk
\* filter "High" leaves exactly one row, the project with id "2", whatever
\* the search term is.
C14_HighIsRowTwo ==
    HighOfSample => Len(filteredProjects) = 1 /\ filteredProjects[1].id = "2"

\* C14: with the 3 sample projects and user filter "All", the risk filter
\* "High" leaves exactly the project with id "2" when the search term is
\* empty or white space only or occurs, ignoring case, in that project's
\* username or projectName, and leaves no row for every other search term.
C14_HighIsRowTwoIfTermHits ==
    HighOfSample =>
        IF OnlyWhiteSpace(searchTerm) \/ SearchHit(mockProjects[2])
        THEN Len(filteredProjects) = 1 /\ filteredProjects[1].id = "2"
        ELSE filteredProjects = <<>>

\* The search term "YY", which occurs in no sample project, was typed with the
\* risk filter at "High": the table has no row.
C14_Witness ==
    /\ HighOfSample
    /\ last.kind = "filter"
    /\ searchTerm = <<"Y", "Y">>
    /\ filteredProjects = <<>>
    /\ mockProjects[2].id = "2"
    /\ mockProjects[2].riskLevel = "High"

(***************************************************************************)
(* Tasks that outlive their viewer.                                        *)
(***************************************************************************)
TaskKinds == {"response", "cleared", "rendered", "failed"}

\* Task i can take its next step, whatever the viewers are doing.
CanGoOn(i) ==
    CASE tasks[i].pc = "fetch" ->
            ENABLED FetchRejects(i) /\ \A status \in HttpStatuses : ENABLED FetchResolves(i, status)
      [] tasks[i].pc = "arrayBuffer" -> ENABLED ArrayBufferResolves(i) /\ ENABLED ArrayBufferRejects(i)
      [] tasks[i].pc = "render" -> ENABLED RenderResolves(i) /\ ENABLED RenderRejects(i)

\* C15: a close of a Document Viewer cancels no task: the tasks in flight are
\* the same after the close and each can still take every next step; a step
\* of a task whose container is off the page by then changes no modal flag
\* and no container reference, and writes into that container: the empty
\* string before rendering, the rendered document of the task's url, or the
\* fallback notice.
C15_LateCompletion ==
    /\ [](\A i \in 1..Len(tasks) : CanGoOn(i))
    /\ [][/\ last'.kind = "close" => tasks' = tasks
          /\ (last'.kind \in TaskKinds /\ last'.el \notin Mounted(containerRef)) =>
                /\ UNCHANGED modalVars
                /\ UNCHANGED containerRef
                /\ \E k \in 1..Len(tasks) :
                      /\ tasks[k].el = last'.el
                      /\ last'.kind = "response" =>
                            tasks' = [tasks EXCEPT ![k].pc = "arrayBuffer"]
                      /\ last'.kind = "cleared" =>
                            /\ tasks' = [tasks EXCEPT ![k].pc = "render"]
                            /\ last'.el \in DOMAIN contents'
                            /\ contents'[last'.el] = Empty
                      /\ last'.kind = "rendered" =>
                            /\ tasks' = RemoveAt(tasks, k)
                            /\ last'.el \in DOMAIN contents'
                            /\ contents'[last'.el] = Doc(tasks[k].url)
                      /\ last'.kind = "failed" =>
                            /\ tasks' = RemoveAt(tasks, k)
                            /\ last'.el \in DOMAIN contents'
                            /\ contents'[last'.el] = Fallback]_vars

\* The supplier viewer is closed and a task started while it was open has
\* rendered its document into its container, which is off the page.
C15_Witness ==
    /\ last.kind = "rendered"
    /\ last.viewer = "supplier"
    /\ ~openSupplierDoc
    /\ containerRef["supplier"] = 0
    /\ last.el # 0
    /\ last.el \in DOMAIN contents
    /\ contents[last.el] = Doc(mockProjects[1].supplierDocUrl)

(***************************************************************************)
(* The page index at render.                                               *)
(***************************************************************************)
\* C16: after every search, risk filter, user filter, page size, sort, Prev,
\* Next and row click event the page index the handler left is within
\* 0..totalPages - 1 at the render that follows, so the page-clamp effect
\* has nothing to change and safePage is currentPage.
C16_PageInRangeAtRender ==
    /\ ~last.clamped
    /\ currentPage >= 0
    /\ currentPage <= totalPages - 1
    /\ safePage = currentPage

\* From the second page or a later one, the page size was raised so that one
\* page is left: the handler had set the page index to 0 and the effect did
\* not act.
C16_Witness ==
    /\ last.kind = "pageSize"
    /\ last.page >= 1
    /\ totalPages = 1
    /\ currentPage = 0
    /\ ~last.clamped
    /\ selectedProject > 1

(***************************************************************************)
(* A viewer that is closed and opened again.                               *)
(***************************************************************************)
\* C17: every open of a closed Document Viewer mounts a container that is
\* new (no task in flight holds it) and empty; a task that starts captures
\* the container on the page at that moment; and a step of a task changes
\* the content of the container it captured and of no other, so a fetch
\* issued during an earlier open never changes what a later open displays.
C17_EarlierFetchLeavesLaterOpen ==
    [][/\ \A v \in Viewers :
            (~openOf(v) /\ containerRef'[v] # 0) =>
                /\ containerRef'[v] \notin Captured(tasks) \cup Mounted(containerRef)
                /\ contents'[containerRef'[v]] = Empty
       /\ \A k \in (Len(tasks) + 1)..Len(tasks') :
            /\ last'.kind \notin TaskKinds
            /\ tasks'[k].el = containerRef'[tasks'[k].viewer]
            /\ tasks'[k].el # 0
            /\ tasks'[k].pc = "fetch"
       /\ \A k \in 1..Len(tasks) : k <= Len(tasks') => tasks'[k].el = tasks[k].el \/ last'.kind \in TaskKinds
       /\ \A v \in Viewers :
            (containerRef[v] # 0 /\ containerRef'[v] = containerRef[v]
                /\ contents'[containerRef[v]] # contents[containerRef[v]]) =>
                /\ last'.kind \in TaskKinds
                /\ last'.el = containerRef[v]
                /\ \E k \in 1..Len(tasks) : tasks[k].el = containerRef[v] /\ tasks[k].viewer = v]_vars

\* The supplier viewer was closed and opened again; the document of the
\* earlier open's fetch has been rendered into its own container, and the
\* content area of the later open is still empty, its fetch in flight.
C17_Witness ==
    /\ last.kind = "rendered"
    /\ last.viewer = "supplier"
    /\ openSupplierDoc
    /\ containerRef["supplier"] # 0
    /\ last.el # containerRef["supplier"]
    /\ contents[last.el] = Doc(mockProjects[1].supplierDocUrl)
    /\ contents[containerRef["supplier"]] = Empty
    /\ \E k \in 1..Len(tasks) : tasks[k].el = containerRef["supplier"] /\ tasks[k].pc = "fetch"
====
